---- MODULE Spec2Model ----
(***************************************************************************)
(* ESC/POS printer emulator (src/printer_emulator.py): the command decoder *)
(* process_data with its three family sub-decoders, the line composer      *)
(* flush_line / format_line and the receipt buffer drained by print_buffer.*)
(* Text is a sequence of byte values; the cursor i is 0-based as in the    *)
(* source, so byte k of data is data[k + 1].                               *)
(***************************************************************************)
EXTENDS Integers, Sequences, FiniteSets, TLC

VARIABLES state, buffer, current_line, data, i, pc, receipt, shown, reads,
          raised, dispatched, batches

vars == <<state, buffer, current_line, data, i, pc, receipt, shown, reads,
          raised, dispatched, batches>>

(***************************************************************************)
(* Bounds of the model.                                                    *)
(***************************************************************************)
\* longest byte stream enumerated exhaustively over Alphabet
MaxLen == 3
\* number of connections served by one engine instance
MaxBatches == 2

(***************************************************************************)
(* PrinterCommand values and the selector bytes of the sub-decoders.       *)
(***************************************************************************)
ESC == 27
GS == 29
FS == 28
LF == 10
CR == 13
NUL == 0

SelInit == 64
SelJustify == 97
SelEmphasis == 69
SelFeed == 100
SelPosition == 36
SelCodePage == 116
SelMode == 33
SelCut == 86
SelFsDot == 46

\* characters used by format_line and the cut separator
Space == 32
Dash == 45

\* "\033[1m" and "\033[0m"
BoldOn == <<27, 91, 49, 109>>
BoldOff == <<27, 91, 48, 109>>

Byte == 0..255

(***************************************************************************)
(* PrinterState() : the dataclass defaults.                                *)
(***************************************************************************)
DefaultState ==
  [chars_per_line |-> 48, alignment |-> 0, bold |-> FALSE, underline |-> FALSE,
   double_width |-> FALSE, double_height |-> FALSE, font_size |-> 1,
   char_spacing |-> 0, line_spacing |-> 30, code_page |-> 0,
   white_on_black |-> FALSE, upside_down |-> FALSE, emphasized |-> FALSE,
   double_strike |-> FALSE, font_b |-> FALSE, italic |-> FALSE]

(***************************************************************************)
(* Helpers on text.                                                        *)
(***************************************************************************)
Max(a, b) == IF a >= b THEN a ELSE b

Repeat(c, n) == [k \in 1..n |-> c]

\* bool(n & mask) for a one-bit mask
BitSet(n, mask) == (n \div mask) % 2 = 1

\* str.ljust(width): pad on the right, never truncate
LJust(text, width) ==
  IF Len(text) >= width THEN text
  ELSE text \o Repeat(Space, width - Len(text))

\* str.rjust(width): pad on the left, never truncate
RJust(text, width) ==
  IF Len(text) >= width THEN text
  ELSE Repeat(Space, width - Len(text)) \o text

\* centring that always rounds the left padding down
CenterLeft_floor(len, width) == (width - len) \div 2

\* str.center(width): left = marg / 2 + (marg & width & 1)
CenterLeft(len, width) ==
  LET marg == width - len
  IN  (marg \div 2) + ((marg % 2) * (width % 2))

Center(text, width) ==
  IF Len(text) >= width THEN text
  ELSE LET left == CenterLeft(Len(text), width)
       IN  Repeat(Space, left) \o text
             \o Repeat(Space, width - Len(text) - left)

\* ' '.join(list(text))
JoinSpaces(text) ==
  IF Len(text) = 0 THEN text
  ELSE [k \in 1..(2 * Len(text) - 1) |->
          IF k % 2 = 1 THEN text[(k + 1) \div 2] ELSE Space]

(***************************************************************************)
(* format_line                                                             *)
(***************************************************************************)
EffectiveWidth(st) ==
  LET w0 == st.chars_per_line
      w1 == IF st.double_width THEN w0 \div 2 ELSE w0
  IN  IF st.font_size > 1 THEN w1 \div st.font_size ELSE w1

Justify(st, text) ==
  IF st.alignment = 1 THEN Center(text, EffectiveWidth(st))
  ELSE IF st.alignment = 2 THEN RJust(text, EffectiveWidth(st))
  ELSE LJust(text, EffectiveWidth(st))

Annotate(st, text) ==
  IF st.emphasized THEN BoldOn \o text \o BoldOff ELSE text

Expand(st, text) ==
  IF st.double_width \/ st.font_size > 1 THEN JoinSpaces(text) ELSE text

\* the expansion applied before the emphasis annotation
format_line_expand_first(st, text) ==
  Annotate(st, Expand(st, Justify(st, text)))

format_line(st, text) == Expand(st, Annotate(st, Justify(st, text)))

(***************************************************************************)
(* flush_line: the engine's (buffer, current_line) after the call.         *)
(***************************************************************************)
\* a flush without the emptiness test
flush_line_always(st, line, buf) ==
  [buffer |-> Append(buf, format_line(st, line)), line |-> <<>>]

flush_line(st, line, buf) ==
  IF line # <<>>
  THEN [buffer |-> Append(buf, format_line(st, line)), line |-> <<>>]
  ELSE [buffer |-> buf, line |-> line]

(***************************************************************************)
(* Reading the byte stream.  data[k] with k outside the stream raises      *)
(* IndexError in the source; every handler reports the indices it reads    *)
(* and the dispatching step turns an index past the end into the raise.    *)
(***************************************************************************)
At(d, k) == IF k < Len(d) THEN d[k + 1] ELSE NUL

\* `if i + 1 >= len(data): return i + 1` guards the selector read
HasSelector(d, k) == k + 1 < Len(d)

\* the guard off by one: the byte after the last one counts as present
HasArg_off_by_one(d, k) == k + 2 <= Len(d)

\* `if i + 2 < len(data):` guards every argument read
HasArg(d, k) == k + 2 < Len(d)

\* the outcome of one handler call: the returned cursor, the engine's
\* fields after it, and the indices of data it read
Res(ni, st, line, buf, rd) ==
  [i |-> ni, state |-> st, line |-> line, buffer |-> buf, reads |-> rd]

(***************************************************************************)
(* handle_esc_sequence, one operator per command.                          *)
(***************************************************************************)
\* an initialize that resets field by field and forgets the character size
EscInit_keeps_size(d, k, st, line, buf) ==
  Res(k + 2, [DefaultState EXCEPT !.font_size = st.font_size], line, buf, {})

\* the pending line rendered under the old state before the reset
EscInit_flushes(d, k, st, line, buf) ==
  LET f == flush_line(st, line, buf)
  IN  Res(k + 2, DefaultState, f.line, f.buffer, {})

\* ESC @
EscInit(d, k, st, line, buf) == Res(k + 2, DefaultState, line, buf, {})

\* the flush placed before the argument check
EscJustify_flush_first(d, k, st, line, buf) ==
  LET f == flush_line(st, line, buf)
  IN  IF HasArg(d, k)
      THEN Res(k + 3, [st EXCEPT !.alignment = At(d, k + 2) % 3],
               f.line, f.buffer, {k + 2})
      ELSE Res(k + 3, st, f.line, f.buffer, {})

\* the pending line flushed only after the new alignment is stored
EscJustify_late_flush(d, k, st, line, buf) ==
  IF HasArg(d, k)
  THEN LET st2 == [st EXCEPT !.alignment = At(d, k + 2) % 3]
           f == flush_line(st2, line, buf)
       IN  Res(k + 3, st2, f.line, f.buffer, {k + 2})
  ELSE Res(k + 3, st, line, buf, {})

\* the argument stored as the alignment without the reduction modulo 3
EscJustify_no_mod(d, k, st, line, buf) ==
  IF HasArg(d, k)
  THEN LET f == flush_line(st, line, buf)
       IN  Res(k + 3, [st EXCEPT !.alignment = At(d, k + 2)],
               f.line, f.buffer, {k + 2})
  ELSE Res(k + 3, st, line, buf, {})

\* ESC a n
EscJustify(d, k, st, line, buf) ==
  IF HasArg(d, k)
  THEN LET f == flush_line(st, line, buf)
       IN  Res(k + 3, [st EXCEPT !.alignment = At(d, k + 2) % 3],
               f.line, f.buffer, {k + 2})
  ELSE Res(k + 3, st, line, buf, {})

\* ESC E n
EscEmphasis(d, k, st, line, buf) ==
  IF HasArg(d, k)
  THEN Res(k + 3, [st EXCEPT !.emphasized = (At(d, k + 2) # 0)],
           line, buf, {k + 2})
  ELSE Res(k + 3, st, line, buf, {})

\* ESC d n
EscFeed(d, k, st, line, buf) ==
  IF HasArg(d, k)
  THEN LET f == flush_line(st, line, buf)
       IN  Res(k + 3, st, f.line,
               f.buffer \o Repeat(<<>>, At(d, k + 2)), {k + 2})
  ELSE Res(k + 3, st, line, buf, {})

\* the position command taken to be five bytes long
EscPosition_five(d, k, st, line, buf) == Res(k + 5, st, line, buf, {})

\* ESC $ nL nH
EscPosition(d, k, st, line, buf) == Res(k + 4, st, line, buf, {})

\* ESC t n
EscCodePage(d, k, st, line, buf) ==
  IF HasArg(d, k)
  THEN Res(k + 3, [st EXCEPT !.code_page = At(d, k + 2)], line, buf, {k + 2})
  ELSE Res(k + 3, st, line, buf, {})

\* double width implemented by halving the nominal line width
EscMode_halves_line(d, k, st, line, buf) ==
  IF HasArg(d, k)
  THEN LET n == At(d, k + 2)
       IN  Res(k + 3,
               [st EXCEPT !.font_b = BitSet(n, 1),
                          !.emphasized = BitSet(n, 8),
                          !.double_height = BitSet(n, 16),
                          !.double_width = BitSet(n, 32),
                          !.chars_per_line =
                             IF BitSet(n, 32) THEN @ \div 2 ELSE @],
               line, buf, {k + 2})
  ELSE Res(k + 3, st, line, buf, {})

\* ESC ! n
EscMode(d, k, st, line, buf) ==
  IF HasArg(d, k)
  THEN LET n == At(d, k + 2)
       IN  Res(k + 3,
               [st EXCEPT !.font_b = BitSet(n, 1),
                          !.emphasized = BitSet(n, 8),
                          !.double_height = BitSet(n, 16),
                          !.double_width = BitSet(n, 32)],
               line, buf, {k + 2})
  ELSE Res(k + 3, st, line, buf, {})

\* the selector read at i + 1 is part of every dispatched command
WithSelector(k, r) == [r EXCEPT !.reads = r.reads \cup {k + 1}]

handle_esc_sequence(d, k, st, line, buf) ==
  IF ~HasSelector(d, k) THEN Res(k + 1, st, line, buf, {})
  ELSE LET cmd == At(d, k + 1)
       IN  WithSelector(k,
             CASE cmd = SelInit -> EscInit(d, k, st, line, buf)
               [] cmd = SelJustify -> EscJustify(d, k, st, line, buf)
               [] cmd = SelEmphasis -> EscEmphasis(d, k, st, line, buf)
               [] cmd = SelFeed -> EscFeed(d, k, st, line, buf)
               [] cmd = SelPosition -> EscPosition(d, k, st, line, buf)
               [] cmd = SelCodePage -> EscCodePage(d, k, st, line, buf)
               [] cmd = SelMode -> EscMode(d, k, st, line, buf)
               [] OTHER -> Res(k + 2, st, line, buf, {}))

(***************************************************************************)
(* handle_gs_sequence                                                      *)
(***************************************************************************)
\* a cut whose separator goes through the line renderer
GsCut_styled(d, k, st, line, buf) ==
  LET f == flush_line(st, line, buf)
  IN  Res(k + 3, st, f.line,
          Append(f.buffer, format_line(st, Repeat(Dash, st.chars_per_line))),
          {})

\* GS V n
GsCut(d, k, st, line, buf) ==
  LET f == flush_line(st, line, buf)
  IN  Res(k + 3, st, f.line,
          Append(f.buffer, Repeat(Dash, st.chars_per_line)), {})

\* the width magnification without the 0x70 mask
WidthMag_unmasked(n) == (n \div 16) + 1

\* ((n & 0x70) >> 4) + 1 and (n & 0x07) + 1
WidthMag(n) == ((n \div 16) % 8) + 1
HeightMag(n) == (n % 8) + 1

\* the size fields stored as sent, without the + 1
GsSize_zero_based(d, k, st, line, buf) ==
  IF HasArg(d, k)
  THEN LET n == At(d, k + 2)
       IN  Res(k + 3,
               [st EXCEPT !.font_size =
                  Max(WidthMag(n), HeightMag(n)) - 1],
               line, buf, {k + 2})
  ELSE Res(k + 3, st, line, buf, {})

\* GS ! n
GsSize(d, k, st, line, buf) ==
  IF HasArg(d, k)
  THEN LET n == At(d, k + 2)
       IN  Res(k + 3,
               [st EXCEPT !.font_size = Max(WidthMag(n), HeightMag(n))],
               line, buf, {k + 2})
  ELSE Res(k + 3, st, line, buf, {})

\* an unrecognized selector left in the stream for the next iteration
handle_gs_sequence_skip_one(d, k, st, line, buf) ==
  IF ~HasSelector(d, k) THEN Res(k + 1, st, line, buf, {})
  ELSE LET cmd == At(d, k + 1)
       IN  WithSelector(k,
             CASE cmd = SelCut -> GsCut(d, k, st, line, buf)
               [] cmd = SelMode -> GsSize(d, k, st, line, buf)
               [] OTHER -> Res(k + 1, st, line, buf, {}))

handle_gs_sequence(d, k, st, line, buf) ==
  IF ~HasSelector(d, k) THEN Res(k + 1, st, line, buf, {})
  ELSE LET cmd == At(d, k + 1)
       IN  WithSelector(k,
             CASE cmd = SelCut -> GsCut(d, k, st, line, buf)
               [] cmd = SelMode -> GsSize(d, k, st, line, buf)
               [] OTHER -> Res(k + 2, st, line, buf, {}))

(***************************************************************************)
(* handle_fs_sequence                                                      *)
(***************************************************************************)
\* a truncated introducer that leaves the cursor where it is
handle_fs_sequence_stuck(d, k, st, line, buf) ==
  IF ~HasSelector(d, k) THEN Res(k, st, line, buf, {})
  ELSE Res(k + 2, st, line, buf, {k + 1})

handle_fs_sequence(d, k, st, line, buf) ==
  IF ~HasSelector(d, k) THEN Res(k + 1, st, line, buf, {})
  ELSE LET cmd == At(d, k + 1)
       IN  WithSelector(k,
             IF cmd = SelFsDot THEN Res(k + 2, st, line, buf, {})
             ELSE Res(k + 2, st, line, buf, {}))

(***************************************************************************)
(* print_buffer: what the display is given and the engine's fields after.  *)
(***************************************************************************)
\* a print_buffer that starts the next receipt from a fresh PrinterState
print_buffer_reset(st, line, buf) ==
  IF buf = <<>> /\ line = <<>>
  THEN [state |-> DefaultState, line |-> line, buffer |-> buf,
        shown |-> FALSE, receipt |-> <<>>]
  ELSE LET f == flush_line(st, line, buf)
       IN  [state |-> DefaultState, line |-> f.line, buffer |-> <<>>,
            shown |-> TRUE, receipt |-> f.buffer]

\* a print_buffer without the early return
print_buffer_always(st, line, buf) ==
  LET f == flush_line(st, line, buf)
  IN  [state |-> st, line |-> f.line, buffer |-> <<>>,
       shown |-> TRUE, receipt |-> f.buffer]

\* the rendered lines displayed but left in the buffer
print_buffer_keeps(st, line, buf) ==
  IF buf = <<>> /\ line = <<>>
  THEN [state |-> st, line |-> line, buffer |-> buf,
        shown |-> FALSE, receipt |-> <<>>]
  ELSE LET f == flush_line(st, line, buf)
       IN  [state |-> st, line |-> f.line, buffer |-> f.buffer,
            shown |-> TRUE, receipt |-> f.buffer]

print_buffer(st, line, buf) ==
  IF buf = <<>> /\ line = <<>>
  THEN [state |-> st, line |-> line, buffer |-> buf,
        shown |-> FALSE, receipt |-> <<>>]
  ELSE LET f == flush_line(st, line, buf)
       IN  [state |-> st, line |-> f.line, buffer |-> <<>>,
            shown |-> TRUE, receipt |-> f.buffer]

(***************************************************************************)
(* The byte streams a client may send: every stream of at most MaxLen      *)
(* bytes over Alphabet (the three introducers, the line terminator, the    *)
(* carriage return, every recognized selector and an ignored byte; the     *)
(* selectors are printable characters and serve as arguments too), the     *)
(* select-character-size command with every argument byte, a printable    *)
(* character followed by every three-byte ESC or GS sequence, and styled   *)
(* receipts: a header of two complete style commands, alone or followed    *)
(* by a line, an initialize command and a second line, and one style       *)
(* command followed by a line with an initialize command in its middle.    *)
(***************************************************************************)
Alphabet ==
  {ESC, GS, FS, LF, CR, NUL, SelInit, SelJustify, SelEmphasis, SelFeed,
   SelPosition, SelCodePage, SelMode, SelCut}

SeqsUpTo(S, n) == UNION {[1..k -> S] : k \in 0..n}

SizeCommands == {<<GS, SelMode, n>> : n \in Byte}

\* center; emphasis on; double width; character size 5; character size 7
StyleCommands ==
  {<<ESC, SelJustify, 1>>, <<ESC, SelEmphasis, 1>>, <<ESC, SelMode, 32>>,
   <<GS, SelMode, 4>>, <<GS, SelMode, 6>>}

StyledHeaders == {c1 \o c2 : c1 \in StyleCommands, c2 \in StyleCommands}

\* "AB" LF  ESC @  "B" LF
TwoLines == <<65, 66, LF, ESC, SelInit, 66, LF>>

StyledReceipts == {h \o TwoLines : h \in StyledHeaders}

\* a style command, then "A" ESC @ LF
InitMidLine == {c \o <<65, ESC, SelInit, LF>> : c \in StyleCommands}

\* "A" and then a command that finds the line pending
TextThenCommand ==
  {<<65, intro, sel, arg>> :
     intro \in {ESC, GS}, sel \in Alphabet, arg \in Alphabet}

Streams ==
  SeqsUpTo(Alphabet, MaxLen) \cup SizeCommands \cup TextThenCommand
    \cup StyledHeaders \cup StyledReceipts \cup InitMidLine

(***************************************************************************)
(* ESCPOSSimulator.__init__                                                *)
(***************************************************************************)
Init ==
  /\ state = DefaultState
  /\ buffer = <<>>
  /\ current_line = <<>>
  /\ data = <<>>
  /\ i = 0
  /\ pc = "idle"
  /\ receipt = <<>>
  /\ shown = FALSE
  /\ reads = {}
  /\ raised = FALSE
  /\ dispatched = <<>>
  /\ batches = 0

(***************************************************************************)
(* handle_client: the whole payload of one connection is collected and,    *)
(* when it is not empty, handed to process_data.                           *)
(***************************************************************************)
Receive ==
  /\ pc = "idle"
  /\ batches < MaxBatches
  /\ \E d \in Streams :
       /\ data' = d
       /\ pc' = IF d # <<>> THEN "scan" ELSE "done"
  /\ batches' = batches + 1
  /\ UNCHANGED <<state, buffer, current_line, i, receipt, shown, reads,
                 raised, dispatched>>

\* `finally: client.close()`: the connection's locals are dropped and the
\* engine waits for the next connection
Close ==
  /\ pc = "done"
  /\ pc' = "idle"
  /\ data' = <<>>
  /\ i' = 0
  /\ receipt' = <<>>
  /\ shown' = FALSE
  /\ reads' = {}
  /\ raised' = FALSE
  /\ dispatched' = <<>>
  /\ UNCHANGED <<state, buffer, current_line, batches>>

(***************************************************************************)
(* process_data: one iteration of `while i < len(data)`.  r is what the    *)
(* taken branch does; a read outside data raises, which leaves             *)
(* process_data for handle_client's except clause.                         *)
(***************************************************************************)
InLoop == pc = "scan" /\ i < Len(data)

Iterate(r) ==
  LET rd == r.reads \cup {i}
  IN  /\ reads' = rd
      /\ dispatched' = Append(dispatched, i)
      /\ IF \A k \in rd : k < Len(data)
         THEN /\ state' = r.state
              /\ current_line' = r.line
              /\ buffer' = r.buffer
              /\ i' = r.i
              /\ UNCHANGED <<pc, raised>>
         ELSE /\ raised' = TRUE
              /\ pc' = "done"
              /\ UNCHANGED <<state, current_line, buffer, i>>
      /\ UNCHANGED <<data, receipt, shown, batches>>

DispatchEsc ==
  /\ InLoop /\ At(data, i) = ESC
  /\ Iterate(handle_esc_sequence(data, i, state, current_line, buffer))

DispatchGs ==
  /\ InLoop /\ At(data, i) = GS
  /\ Iterate(handle_gs_sequence(data, i, state, current_line, buffer))

DispatchFs ==
  /\ InLoop /\ At(data, i) = FS
  /\ Iterate(handle_fs_sequence(data, i, state, current_line, buffer))

DispatchLf ==
  /\ InLoop /\ At(data, i) = LF
  /\ LET f == flush_line(state, current_line, buffer)
     IN  Iterate(Res(i + 1, state, f.line, f.buffer, {}))

\* a carriage return handled like the line terminator
DispatchCr_flushes ==
  /\ InLoop /\ At(data, i) = CR
  /\ LET f == flush_line(state, current_line, buffer)
     IN  Iterate(Res(i + 1, state, f.line, f.buffer, {}))

DispatchCr ==
  /\ InLoop /\ At(data, i) = CR
  /\ Iterate(Res(i + 1, state, current_line, buffer, {}))

Printable(b) == 32 <= b /\ b <= 126

DispatchPrintable ==
  /\ InLoop /\ At(data, i) \notin {ESC, GS, FS, LF, CR}
  /\ Printable(At(data, i))
  /\ Iterate(Res(i + 1, state, Append(current_line, At(data, i)), buffer, {}))

DispatchOther ==
  /\ InLoop /\ At(data, i) \notin {ESC, GS, FS, LF, CR}
  /\ ~Printable(At(data, i))
  /\ Iterate(Res(i + 1, state, current_line, buffer, {}))

\* the loop is left and print_buffer runs
PrintBuffer ==
  /\ pc = "scan" /\ ~(i < Len(data))
  /\ LET p == print_buffer(state, current_line, buffer)
     IN  /\ state' = p.state
         /\ current_line' = p.line
         /\ buffer' = p.buffer
         /\ shown' = p.shown
         /\ receipt' = p.receipt
  /\ pc' = "done"
  /\ UNCHANGED <<data, i, reads, raised, dispatched, batches>>

Next ==
  \/ Receive
  \/ DispatchEsc
  \/ DispatchGs
  \/ DispatchFs
  \/ DispatchLf
  \/ DispatchCr
  \/ DispatchPrintable
  \/ DispatchOther
  \/ PrintBuffer
  \/ Close

Spec == Init /\ [][Next]_vars

\* a started process_data call runs to its end; whether another client ever
\* connects is up to the clients
Scan ==
  \/ DispatchEsc \/ DispatchGs \/ DispatchFs \/ DispatchLf \/ DispatchCr
  \/ DispatchPrintable \/ DispatchOther \/ PrintBuffer \/ Close

FairSpec == Spec /\ WF_vars(Scan)

(***************************************************************************)
(* Vocabulary of the properties.                                           *)
(***************************************************************************)
\* the loop is about to dispatch the command `intro sel`
AtCmd(intro, sel) ==
  InLoop /\ At(data, i) = intro /\ HasSelector(data, i)
    /\ At(data, i + 1) = sel

\* the position dispatched by the latest loop iteration of this batch
Last == dispatched[Len(dispatched)]

\* the latest loop iteration dispatched the command `intro sel`
DidCmd(intro, sel) ==
  /\ pc \in {"scan", "done"} /\ dispatched # <<>>
  /\ At(data, Last) = intro /\ HasSelector(data, Last)
  /\ At(data, Last + 1) = sel

Increasing(s) == \A a, b \in DOMAIN s : a < b => s[a] < s[b]

(***************************************************************************)
(* C1: decoding of every byte stream terminates, every loop iteration      *)
(* moves the cursor forward by at least 1, and no byte position is         *)
(* dispatched twice.                                                       *)
(***************************************************************************)
C1_Terminates ==
  /\ [][InLoop => (i' >= i + 1 /\ pc' = "scan")]_vars
  /\ [](Increasing(dispatched) /\ (pc = "scan" => raised = FALSE))
  /\ []<>(pc # "scan")

\* a three-byte stream decoded to its end in two iterations, one of them a
\* two-byte command
C1_Witness ==
  /\ pc = "done" /\ ~raised /\ Len(data) = 3 /\ i = 3
  /\ dispatched = <<0, 2>>

(***************************************************************************)
(* More vocabulary: the fixed length of a command, the commands that take  *)
(* an argument guarded by the length check, and the entry a flush adds.    *)
(***************************************************************************)
FixedLength(intro, sel) ==
  IF intro = ESC /\ sel = SelInit THEN 2
  ELSE IF intro = ESC /\ sel = SelPosition THEN 4
  ELSE IF intro = ESC
            /\ sel \in {SelJustify, SelEmphasis, SelFeed, SelCodePage, SelMode}
       THEN 3
  ELSE IF intro = GS /\ sel \in {SelCut, SelMode} THEN 3
  ELSE 2

\* justification, emphasis, print-and-feed, code page, print mode (family A)
\* or character size (family B) is about to be dispatched
AtArgCmd ==
  \/ \E sel \in {SelJustify, SelEmphasis, SelFeed, SelCodePage, SelMode} :
       AtCmd(ESC, sel)
  \/ AtCmd(GS, SelMode)

\* this step renders the pending line
Flushed == current_line # <<>> /\ current_line' = <<>>

\* ... and this is the entry it adds, in the buffer or, at the end of the
\* batch, in the receipt handed to the display
NewEntry ==
  IF pc' = "scan" THEN buffer'[Len(buffer) + 1] ELSE receipt'[Len(buffer) + 1]

IsPrefix(s, t) == Len(s) <= Len(t) /\ SubSeq(t, 1, Len(s)) = s

(***************************************************************************)
(* C2 as stated: the cursor a family sub-decoder returns never exceeds     *)
(* the length of the stream.                                               *)
(***************************************************************************)
C2_CursorWithinStream ==
  (pc \in {"scan", "done"} /\ dispatched # <<>>
     /\ At(data, Last) \in {ESC, GS, FS})
    => i <= Len(data)

(***************************************************************************)
(* C2 amended: the cursor a family sub-decoder returns is the position     *)
(* where the complete command would end.  With the selector missing it is  *)
(* the length of the stream; with argument bytes of a recognized command   *)
(* missing it is past the length by the number of missing bytes, at most   *)
(* 2.  No byte past the end is read.                                       *)
(***************************************************************************)
C2_CursorAtCommandEnd ==
  (pc \in {"scan", "done"} /\ dispatched # <<>>
     /\ At(data, Last) \in {ESC, GS, FS})
    => /\ ~raised
       /\ \A k \in reads : k < Len(data)
       /\ IF HasSelector(data, Last)
          THEN i = Last + FixedLength(At(data, Last), At(data, Last + 1))
          ELSE i = Len(data)
       /\ i <= Len(data) + 2

\* the absolute-position command cut after its selector: two bytes missing
C2_Witness ==
  /\ DidCmd(ESC, SelPosition) /\ Last + 2 = Len(data)
  /\ i = Len(data) + 2 /\ reads = {Last, Last + 1}

(***************************************************************************)
(* C3: every index of the stream that a loop iteration reads (the          *)
(* dispatched byte, the selector, the argument) is below the length of the *)
(* stream, nothing is raised, and a finished decoding has its cursor at    *)
(* or past the end.                                                        *)
(***************************************************************************)
C3_ReadsInBounds ==
  /\ ~raised
  /\ \A k \in reads : 0 <= k /\ k < Len(data)
  /\ (pc = "done" /\ data # <<>>) => i >= Len(data)

\* a command whose argument is the last byte of the stream
C3_Witness ==
  /\ pc = "done" /\ Len(data) = 3 /\ reads = {0, 1, 2} /\ ~raised

(***************************************************************************)
(* C4: an argument-taking command of family A, or the character-size       *)
(* command of family B, dispatched with its argument byte missing leaves   *)
(* PrinterState, the current line and the ReceiptBuffer as they were.      *)
(***************************************************************************)
C4_TruncatedChangesNothing ==
  [][(AtArgCmd /\ ~HasArg(data, i))
       => /\ state' = state
          /\ current_line' = current_line
          /\ buffer' = buffer
          /\ pc' = "scan"]_vars

\* a justification command without its argument was decoded while a line
\* was pending under a non-default alignment
C4_Witness ==
  /\ DidCmd(ESC, SelJustify) /\ ~HasArg(data, Last) /\ pc = "scan"
  /\ current_line # <<>> /\ buffer = <<>> /\ state.alignment = 1

(***************************************************************************)
(* C5: decoding ESC @ from any PrinterState leaves the documented          *)
(* defaults and advances the cursor by exactly 2.                          *)
(***************************************************************************)
C5_InitializeResets ==
  [][AtCmd(ESC, SelInit)
       => /\ state'.alignment = 0
          /\ state'.emphasized = FALSE
          /\ state'.double_width = FALSE
          /\ state'.double_height = FALSE
          /\ state'.font_size = 1
          /\ state'.code_page = 0
          /\ state'.font_b = FALSE
          /\ state'.italic = FALSE
          /\ state'.double_strike = FALSE
          /\ state'.white_on_black = FALSE
          /\ state'.upside_down = FALSE
          /\ i' = i + 2]_vars

\* ESC @ decoded after a header that centred the text and set size 5
C5_Witness ==
  /\ DidCmd(ESC, SelInit) /\ Last = 9 /\ i = 11
  /\ SubSeq(data, 1, 6) = <<ESC, SelJustify, 1, GS, SelMode, 4>>
  /\ state = DefaultState

(***************************************************************************)
(* C6: PrinterState is carried from one batch to the next.  A step changes *)
(* it only by decoding a recognized state-setting command with its         *)
(* argument, and then only that command's fields; only ESC @ resets the    *)
(* record; the steps at a batch boundary leave it unchanged.               *)
(***************************************************************************)
C6_StatePersists ==
  [][/\ (pc' # pc => state' = state)
     /\ CASE AtCmd(ESC, SelInit) -> state' = DefaultState
          [] AtCmd(ESC, SelJustify) /\ HasArg(data, i) ->
               state' = [state EXCEPT !.alignment = state'.alignment]
          [] AtCmd(ESC, SelEmphasis) /\ HasArg(data, i) ->
               state' = [state EXCEPT !.emphasized = state'.emphasized]
          [] AtCmd(ESC, SelCodePage) /\ HasArg(data, i) ->
               state' = [state EXCEPT !.code_page = state'.code_page]
          [] AtCmd(ESC, SelMode) /\ HasArg(data, i) ->
               state' = [state EXCEPT !.font_b = state'.font_b,
                                      !.emphasized = state'.emphasized,
                                      !.double_height = state'.double_height,
                                      !.double_width = state'.double_width]
          [] AtCmd(GS, SelMode) /\ HasArg(data, i) ->
               state' = [state EXCEPT !.font_size = state'.font_size]
          [] OTHER -> state' = state]_vars

\* a later batch starts under the centred, emphasized state an earlier one
\* left behind
C6_Witness ==
  /\ pc = "scan" /\ i = 0 /\ dispatched = <<>> /\ batches >= 2
  /\ state.alignment = 1 /\ state.emphasized

(***************************************************************************)
(* C7: a flush that finds the current line empty appends nothing, whatever *)
(* triggers it: after a line terminator or a justification command the     *)
(* buffer is unchanged, print-and-feed adds only its n blank entries, a    *)
(* cut adds only its separator, and the end of the batch hands over the    *)
(* buffer as it is.  No step other than print-and-feed adds an empty       *)
(* entry to the buffer or to the receipt.                                  *)
(***************************************************************************)
C7_EmptyFlushAppendsNothing ==
  [][/\ current_line = <<>> =>
          /\ (InLoop /\ At(data, i) = LF) => buffer' = buffer
          /\ AtCmd(ESC, SelJustify) => buffer' = buffer
          /\ (AtCmd(ESC, SelFeed) /\ HasArg(data, i)) =>
               buffer' = buffer \o Repeat(<<>>, At(data, i + 2))
          /\ AtCmd(GS, SelCut) =>
               buffer' = Append(buffer, Repeat(Dash, state.chars_per_line))
          /\ (pc = "scan" /\ ~InLoop) =>
               (receipt' = buffer /\ buffer' = <<>>)
     /\ ~(AtCmd(ESC, SelFeed) /\ HasArg(data, i)) =>
          /\ \A k \in (Len(buffer) + 1)..Len(buffer') : buffer'[k] # <<>>
          /\ \A k \in (Len(buffer) + 1)..Len(receipt') : receipt'[k] # <<>>
    ]_vars

\* a second line terminator found the line empty and the buffer holding the
\* one rendered line
C7_Witness ==
  /\ pc = "scan" /\ dispatched = <<0, 1, 2>>
  /\ At(data, 1) = LF /\ At(data, 2) = LF
  /\ current_line = <<>> /\ Len(buffer) = 1

(***************************************************************************)
(* C8: within a batch the buffer only grows at its end: every loop         *)
(* iteration leaves the entries already there as they are, the receipt     *)
(* handed over at the end of the batch starts with them, and the entry a   *)
(* flush adds is the rendering of the pending text under the PrinterState  *)
(* in force when the flush runs.                                           *)
(***************************************************************************)
C8_AppendOnly ==
  [][/\ (pc = "scan" /\ pc' = "scan") => IsPrefix(buffer, buffer')
     /\ (pc = "scan" /\ pc' = "done" /\ buffer # <<>>) =>
          IsPrefix(buffer, receipt')
     /\ Flushed =>
          /\ Len(IF pc' = "scan" THEN buffer' ELSE receipt') > Len(buffer)
          /\ NewEntry = format_line(state, current_line)]_vars

\* the receipt keeps the first line as rendered under the styled state that
\* ESC @ has since replaced, followed by the second line
C8_Witness ==
  /\ pc = "done" /\ Len(receipt) = 2 /\ state = DefaultState
  /\ receipt[1] # format_line(state, <<65, 66>>)
  /\ receipt[2] = format_line(state, <<66>>)

(***************************************************************************)
(* C9 as stated: a centred text shorter than the effective width gets      *)
(* floor(pad/2) spaces on the left and ceil(pad/2) on the right, for every *)
(* effective width.                                                        *)
(***************************************************************************)
Padded(text, left, width) ==
  Repeat(Space, left) \o text \o Repeat(Space, width - Len(text) - left)

C9_ExtraSpaceRight ==
  [][(Flushed /\ state.alignment = 1
        /\ Len(current_line) < EffectiveWidth(state))
       => LET w == EffectiveWidth(state)
              pad == w - Len(current_line)
          IN  NewEntry =
                Expand(state,
                  Annotate(state, Padded(current_line, pad \div 2, w)))]_vars

(***************************************************************************)
(* C9 amended: a centred text shorter than the effective width gets        *)
(* floor(pad/2) spaces on the left and the rest on the right when the      *)
(* effective width is even; when the effective width is odd and the        *)
(* padding is odd the extra space is on the left (ceil(pad/2) left,        *)
(* floor(pad/2) right).                                                    *)
(***************************************************************************)
C9_ExtraSpaceByWidthParity ==
  [][(Flushed /\ state.alignment = 1
        /\ Len(current_line) < EffectiveWidth(state))
       => LET w == EffectiveWidth(state)
              pad == w - Len(current_line)
              left == IF w % 2 = 1 /\ pad % 2 = 1
                      THEN (pad \div 2) + 1 ELSE pad \div 2
          IN  NewEntry =
                Expand(state,
                  Annotate(state, Padded(current_line, left, w)))]_vars

\* "AB" flushed centred at effective width 9 (48 div 5): four spaces on the
\* left, three on the right, then expanded
C9_Witness ==
  /\ pc = "scan" /\ Len(buffer) = 1 /\ state.alignment = 1
  /\ EffectiveWidth(state) = 9 /\ dispatched # <<>> /\ At(data, Last) = LF
  /\ buffer[1] = JoinSpaces(<<32, 32, 32, 32, 65, 66, 32, 32, 32>>)

(***************************************************************************)
(* C10 as stated: GS ! n sets fontSize to the larger of (n div 16) + 1 and *)
(* (n mod 16) + 1 and advances the cursor by 3.                            *)
(***************************************************************************)
C10_SizeFromNibbles ==
  [][(AtCmd(GS, SelMode) /\ HasArg(data, i))
       => LET n == At(data, i + 2)
          IN  /\ state'.font_size = Max((n \div 16) + 1, (n % 16) + 1)
              /\ i' = i + 3]_vars

(***************************************************************************)
(* C10 amended: GS ! n sets fontSize to the larger of the width            *)
(* magnification ((n div 16) mod 8) + 1 and the height magnification       *)
(* (n mod 8) + 1, that is bits 4-6 and bits 0-2 of n, bits 3 and 7 being   *)
(* ignored, and advances the cursor by 3.                                  *)
(***************************************************************************)
C10_SizeFromThreeBitFields ==
  [][(AtCmd(GS, SelMode) /\ HasArg(data, i))
       => LET n == At(data, i + 2)
          IN  /\ state'.font_size
                   = Max(((n \div 16) % 8) + 1, (n % 8) + 1)
              /\ state'.font_size \in 1..8
              /\ i' = i + 3]_vars

\* GS ! 0x88 decoded: bits 3 and 7 alone leave the size at 1
C10_Witness ==
  /\ DidCmd(GS, SelMode) /\ HasArg(data, Last) /\ At(data, Last + 2) = 136
  /\ i = Last + 3 /\ state.font_size = 1


(***************************************************************************)
(* C11: decoding GS V from any state first flushes the pending line (its   *)
(* rendering is appended only if it is not empty) and then appends exactly *)
(* one entry of charsPerLine separator characters, whatever the alignment, *)
(* emphasis, double width or font size; PrinterState is unchanged.         *)
(***************************************************************************)
C11_CutAppendsSeparator ==
  [][AtCmd(GS, SelCut)
       => /\ buffer' =
               (IF current_line # <<>>
                THEN Append(buffer, format_line(state, current_line))
                ELSE buffer)
                 \o <<[k \in 1..state.chars_per_line |-> Dash]>>
          /\ Len(buffer'[Len(buffer')]) = 48
          /\ current_line' = <<>>
          /\ state' = state
          /\ i' = i + 3]_vars

\* a cut decoded with a line pending under a centred, emphasized, expanded
\* style: the rendered line and then the plain 48-character separator
C11_Witness ==
  /\ DidCmd(GS, SelCut) /\ pc = "scan" /\ Len(buffer) = 2
  /\ state.alignment = 1 /\ state.emphasized
  /\ buffer[1] = format_line(state, <<At(data, 0)>>)
  /\ buffer[2] = Repeat(Dash, 48)


(***************************************************************************)
(* C12: at the end of a batch the display is given a receipt exactly when  *)
(* the buffer or the current line is not empty, and never an empty         *)
(* receipt.  An empty byte stream, and a stream that dispatches no         *)
(* printable byte, no cut and no print-and-feed of one or more lines (only *)
(* state-setting commands, ignored bytes, carriage returns, line           *)
(* terminators on an empty line), produces no entry and no output.         *)
(***************************************************************************)
\* position k of the stream was dispatched as something that produces output
Produces(k) ==
  \/ At(data, k) \notin {ESC, GS, FS, LF, CR} /\ Printable(At(data, k))
  \/ At(data, k) = GS /\ HasSelector(data, k) /\ At(data, k + 1) = SelCut
  \/ /\ At(data, k) = ESC /\ HasSelector(data, k)
     /\ At(data, k + 1) = SelFeed /\ HasArg(data, k) /\ At(data, k + 2) > 0

C12_NoEmptyReceipt ==
  /\ [][(pc = "scan" /\ ~InLoop)
          => /\ shown' = (buffer # <<>> \/ current_line # <<>>)
             /\ shown' => receipt' # <<>>
             /\ ~shown' => receipt' = <<>>]_vars
  /\ [](/\ shown => (pc = "done" /\ receipt # <<>>)
        /\ (pc = "done" /\ data = <<>>)
             => (~shown /\ receipt = <<>> /\ buffer = <<>>
                   /\ dispatched = <<>>)
        /\ (pc \in {"scan", "done"}
              /\ \A n \in DOMAIN dispatched : ~Produces(dispatched[n]))
             => (~shown /\ receipt = <<>> /\ buffer = <<>>
                   /\ current_line = <<>>))

\* a batch holding only a print-mode command ended: the state changed and
\* the display was not invoked
C12_Witness ==
  /\ pc = "done" /\ DidCmd(ESC, SelMode) /\ HasArg(data, Last)
  /\ i >= Len(data) /\ state.double_width /\ ~shown /\ receipt = <<>>


(***************************************************************************)
(* C13: a flushed line is rendered in the order width, justify, emphasis,  *)
(* expansion.  The text is justified to charsPerLine, halved if            *)
(* doubleWidth and divided by fontSize if fontSize > 1; the result is      *)
(* wrapped in the emphasis marker if emphasized; and when doubleWidth or   *)
(* fontSize > 1 the entry is that whole annotated string (marker included) *)
(* with one space between adjacent characters, of length 2L - 1 for an     *)
(* annotated string of length L; otherwise it is the annotated string.     *)
(***************************************************************************)
C13_RenderingOrder ==
  [][Flushed
       => LET halved == IF state.double_width
                        THEN state.chars_per_line \div 2
                        ELSE state.chars_per_line
              width == IF state.font_size > 1
                       THEN halved \div state.font_size ELSE halved
              justified == Justify(state, current_line)
              annotated == IF state.emphasized
                           THEN <<27, 91, 49, 109>> \o justified
                                  \o <<27, 91, 48, 109>>
                           ELSE justified
              L == Len(annotated)
          IN  /\ Len(justified) = Max(width, Len(current_line))
              /\ IF state.double_width \/ state.font_size > 1
                 THEN /\ Len(NewEntry) = 2 * L - 1
                      /\ \A k \in 1..L : NewEntry[2 * k - 1] = annotated[k]
                      /\ \A k \in 1..(L - 1) : NewEntry[2 * k] = Space
                 ELSE NewEntry = annotated]_vars

\* one character flushed under emphasis and double width: width 24, the
\* marker adds 8 characters, and the 32 are spread over 63
C13_Witness ==
  /\ pc = "scan" /\ Len(buffer) = 1 /\ current_line = <<>>
  /\ state.emphasized /\ state.double_width /\ state.font_size = 1
  /\ Len(buffer[1]) = 63
  /\ SubSeq(buffer[1], 1, 9) = <<27, 32, 91, 32, 49, 32, 109, 32, At(data, 0)>>


(***************************************************************************)
(* C14: a justification command with its argument first renders a pending *)
(* non-empty line under the alignment in force before the command and      *)
(* appends it, then sets alignment to argument mod 3 and advances the      *)
(* cursor by 3; alignment is 0, 1 or 2 in every reachable state.           *)
(***************************************************************************)
C14_JustifyFlushesThenSets ==
  /\ [][(AtCmd(ESC, SelJustify) /\ HasArg(data, i))
          => /\ buffer' = IF current_line # <<>>
                          THEN Append(buffer, format_line(state, current_line))
                          ELSE buffer
             /\ current_line' = <<>>
             /\ state' = [state EXCEPT !.alignment = At(data, i + 2) % 3]
             /\ i' = i + 3]_vars
  /\ [](state.alignment \in {0, 1, 2})

\* "A" was pending, left-aligned, when ESC a 'V' made the alignment right:
\* the buffer holds "A" rendered left-aligned
C14_Witness ==
  /\ DidCmd(ESC, SelJustify) /\ HasArg(data, Last) /\ Last = 1
  /\ At(data, 3) = 86 /\ state.alignment = 2 /\ i = 4
  /\ buffer = <<format_line([state EXCEPT !.alignment = 0], <<At(data, 0)>>)>>
  /\ buffer[1][1] = At(data, 0) /\ current_line = <<>>


(***************************************************************************)
(* C15: at top level a carriage return, or a byte that is no introducer,   *)
(* not the line terminator and not in 32..126, advances the cursor by      *)
(* exactly 1 and leaves PrinterState, current line and ReceiptBuffer       *)
(* unchanged; a byte in 32..126 appends exactly its character to the end   *)
(* of the current line, advances by 1 and changes nothing else.            *)
(***************************************************************************)
C15_IgnoredAndPrintableBytes ==
  [][InLoop =>
       LET b == data[i + 1]
       IN  /\ (b = 13 \/ (b \notin {27, 28, 29, 10} /\ (b < 32 \/ b > 126)))
                => /\ i' = i + 1
                   /\ state' = state
                   /\ current_line' = current_line
                   /\ buffer' = buffer
           /\ (32 <= b /\ b <= 126)
                => /\ i' = i + 1
                   /\ state' = state
                   /\ current_line' = current_line \o <<b>>
                   /\ buffer' = buffer]_vars

\* "a", a carriage return and a NUL were dispatched: the line still holds
\* just "a" and nothing was flushed
C15_Witness ==
  /\ pc = "scan" /\ dispatched = <<0, 1, 2>> /\ i = 3
  /\ At(data, 1) = CR /\ At(data, 2) = NUL
  /\ current_line = <<At(data, 0)>> /\ buffer = <<>>


(***************************************************************************)
(* C16: an introducer followed by a selector outside the recognized table  *)
(* of its family (any selector at all for FS) advances the cursor by       *)
(* exactly 2 and leaves PrinterState, current line and ReceiptBuffer       *)
(* unchanged; the selector byte is never itself dispatched.                *)
(***************************************************************************)
Recognized(intro) ==
  IF intro = ESC
  THEN {SelInit, SelJustify, SelEmphasis, SelFeed, SelPosition, SelCodePage,
        SelMode}
  ELSE IF intro = GS THEN {SelCut, SelMode}
  ELSE {}

C16_UnknownSelector ==
  /\ [][(InLoop /\ At(data, i) \in {ESC, GS, FS} /\ HasSelector(data, i)
           /\ At(data, i + 1) \notin Recognized(At(data, i)))
          => /\ i' = i + 2
             /\ state' = state
             /\ current_line' = current_line
             /\ buffer' = buffer]_vars
  /\ [](\A n \in DOMAIN dispatched :
          (At(data, dispatched[n]) \in {ESC, GS, FS}
             /\ HasSelector(data, dispatched[n]))
            => \A m \in DOMAIN dispatched : dispatched[m] # dispatched[n] + 1)

\* GS followed by the printable "a", which is no GS selector: the cursor is
\* past both bytes and the "a" did not reach the line
C16_Witness ==
  /\ pc = "scan" /\ dispatched = <<0>> /\ i = 2 /\ Len(data) = 3
  /\ At(data, 0) = GS /\ At(data, 1) = SelJustify
  /\ current_line = <<>> /\ buffer = <<>>


(***************************************************************************)
(* C17: with the default chars_per_line of 48, in every reachable state    *)
(* font_size is at least 1 (and at most 8) and the effective width used at *)
(* flush (chars_per_line, halved when double_width, divided by font_size   *)
(* when font_size > 1) is at least 1.                                      *)
(***************************************************************************)
C17_WidthAtLeastOne ==
  /\ state.chars_per_line = 48
  /\ state.font_size \in 1..8
  /\ EffectiveWidth(state) >= 1

\* double width and character size 7 from an earlier batch: "@" LF is
\* flushed at the effective width 3
C17_Witness ==
  /\ pc = "done" /\ batches = 2 /\ data = <<SelInit, LF>>
  /\ state.double_width /\ state.font_size = 7
  /\ EffectiveWidth(state) = 3
  /\ receipt = <<format_line(state, <<SelInit>>)>>


(***************************************************************************)
(* C18: at the end of a batch, text still pending in the current line is   *)
(* rendered with the PrinterState of that moment and displayed as the last *)
(* entry of the receipt; once the batch is complete the ReceiptBuffer and  *)
(* the current line are both empty, so every batch starts from an empty    *)
(* buffer and an empty line.                                               *)
(***************************************************************************)
C18_PendingTextAndClearing ==
  /\ [][(pc = "scan" /\ ~InLoop)
          => /\ pc' = "done"
             /\ buffer' = <<>>
             /\ current_line' = <<>>
             /\ state' = state
             /\ current_line # <<>>
                  => /\ shown'
                     /\ receipt' =
                          Append(buffer, format_line(state, current_line))]_vars
  /\ [](pc \in {"idle", "done"} => buffer = <<>> /\ current_line = <<>>)
  /\ []((pc = "scan" /\ dispatched = <<>>)
          => buffer = <<>> /\ current_line = <<>>)

\* second batch "A" ESC E 27: the "A" never met a line terminator and is
\* displayed centered (set by the first batch) and emphasized
C18_Witness ==
  /\ pc = "done" /\ batches = 2 /\ shown
  /\ data = <<65, ESC, SelEmphasis, ESC>>
  /\ state.alignment = 1 /\ state.emphasized
  /\ receipt = <<format_line(state, <<65>>)>>
  /\ receipt[1] # format_line(DefaultState, <<65>>)
  /\ buffer = <<>> /\ current_line = <<>>


NonFlushing ==
  {<<ESC, SelInit>>, <<ESC, SelEmphasis>>, <<ESC, SelCodePage>>,
   <<ESC, SelMode>>, <<GS, SelMode>>}

C20_SettingsDoNotFlush ==
  /\ [][(\E c \in NonFlushing : AtCmd(c[1], c[2]))
          => current_line' = current_line /\ buffer' = buffer]_vars
  /\ []((pc = "done" /\ data \in InitMidLine)
          => /\ state = DefaultState
             /\ receipt = <<format_line(DefaultState, <<65>>)>>)
  /\ []((pc = "done" /\ Len(data) = 4 /\ At(data, 0) = 65
           /\ <<At(data, 1), At(data, 2)>> \in NonFlushing
           /\ (At(data, 2) = SelInit => At(data, 3) \notin {LF, CR, NUL, ESC, GS, FS}))
          => receipt =
               <<format_line(state,
                   IF At(data, 2) = SelInit THEN <<65, At(data, 3)>>
                   ELSE <<65>>)>>)

\* center, "A", initialize, LF: the "A" was received while centering was
\* selected and is displayed left-justified
C20_Witness ==
  /\ pc = "done" /\ shown
  /\ data = <<ESC, SelJustify, 1, 65, ESC, SelInit, LF>>
  /\ state = DefaultState
  /\ receipt = <<LJust(<<65>>, 48)>>
  /\ receipt[1] # Center(<<65>>, 48)

====
